---- MODULE Spec2Model ----
(***************************************************************************)
(* Model of the e-book chapter slicer (src/epub/epub_processor.py) and of   *)
(* the screenshot tool's main window (src/ScreenShoter/main.py).           *)
(*                                                                         *)
(* Text is a sequence of one-character strings, so that trimming, joining, *)
(* splitting on "#" and substring containment are computed, not assumed.   *)
(* A parsed document is a tree of nodes: a NavigableString node carries    *)
(* its literal in `string`; a Tag node carries a name, an id attribute     *)
(* (None when absent) and its child nodes in `contents`.                   *)
(***************************************************************************)
EXTENDS Integers, Sequences, FiniteSets, TLC

VARIABLES
    pc,            \* control point of the routine being run
    bs4_legacy,    \* whether the installed parser lets id="" match a tag without id
    soup,          \* the parsed document handed to the anchor routines
    start_anchor,  \* anchor id of the start reference
    end_anchor,    \* anchor id of the end reference
    result,        \* the string a routine returned
    book,          \* [toc, items]: table of contents and ordered content items
    start_href,    \* extract_text_by_bookmark: start reference
    end_href,      \* extract_text_by_bookmark: end reference ("" is the sentinel)
    flag,          \* extract_text_by_bookmark: inside the start..end range
    text,          \* extract_text_by_bookmark: accumulated text
    item_idx,      \* extract_text_by_bookmark: number of items already scanned
    toc,           \* extract_bookmarks: the list being flattened
    prefix,        \* extract_bookmarks: title prefix of this pass
    titles,        \* extract_bookmarks: candidate titles seen in this pass
    bookmarks,     \* flattened (title, href) pairs
    toc_idx,       \* extract_bookmarks: number of toc items already processed
    chapters,      \* split_text_by_bookmarks: output list
    i,             \* split_text_by_bookmarks: loop index (0-based)
    run,           \* how many times the script ran on this book
    prev_chapters, \* the chapter list the previous run returned
    config,        \* MainWindow.config: the AppConfig object
    frames,        \* MainWindow.frames: the cached grabs, oldest first
    first_shot_done, \* MainWindow.first_shot_done
    edits,         \* texts of edit_hotkey_start, edit_hotkey_capture, edit_hotkey_stop
    hotkey_dirty,  \* MainWindow.hotkey_dirty
    hotkey_handles, \* MainWindow.hotkey_handles: the handles the window recorded
    hooks,         \* the keyboard library's registry: handle and hotkey of each hook
    event,         \* the handler that ran last
    stop_did       \* what the last on_hotkey_stop copied, saved and signalled

vars == <<pc, bs4_legacy, soup, start_anchor, end_anchor, result, book,
          start_href, end_href, flag, text, item_idx, toc, prefix, titles,
          bookmarks, toc_idx, chapters, i, run, prev_chapters,
          config, frames, first_shot_done, edits, hotkey_dirty,
          hotkey_handles, hooks, event, stop_did>>

----------------------------------------------------------------------------
(* Bounds of the model *)

\* siblings per enumerated document (anchor routines)
MaxNodes == 3

\* entries of an enumerated table-of-contents list (extract_bookmarks)
MaxToc == 3

\* content items of an enumerated book (extract_text_by_bookmark)
MaxScanItems == 3

\* table-of-contents entries and content items of an enumerated book
\* (split_text_by_bookmarks)
MaxSplitToc == 2
MaxSplitItems == 2

\* how often the script is run on one book
MaxRuns == 2

----------------------------------------------------------------------------
(* Python string operations *)

Whitespace == {" ", "\n"}

RECURSIVE lstrip(_)
lstrip(s) ==
    IF s # <<>> /\ Head(s) \in Whitespace THEN lstrip(Tail(s)) ELSE s

RECURSIVE rstrip(_)
rstrip(s) ==
    IF s # <<>> /\ s[Len(s)] \in Whitespace
    THEN rstrip(SubSeq(s, 1, Len(s) - 1))
    ELSE s

\* str.strip()
strip(s) == rstrip(lstrip(s))

\* sep.join(parts)
RECURSIVE join(_, _)
join(sep, parts) ==
    IF parts = <<>> THEN <<>>
    ELSE IF Len(parts) = 1 THEN parts[1]
    ELSE parts[1] \o sep \o join(sep, Tail(parts))

\* "".join(parts): plain concatenation
RECURSIVE concat(_)
concat(parts) ==
    IF parts = <<>> THEN <<>> ELSE Head(parts) \o concat(Tail(parts))

\* str(n) for a natural number
Digits == <<"0", "1", "2", "3", "4", "5", "6", "7", "8", "9">>

RECURSIVE str(_)
str(n) ==
    IF n < 10 THEN <<Digits[n + 1]>>
    ELSE str(n \div 10) \o <<Digits[(n % 10) + 1]>>

\* list.count(x)
count(list, x) == Cardinality({k \in 1..Len(list) : list[k] = x})

\* x in list
is_in(x, list) == \E k \in 1..Len(list) : list[k] = x

\* sub in s: substring containment
contains(sub, s) ==
    \E k \in 0..(Len(s) - Len(sub)) : SubSeq(s, k + 1, k + Len(sub)) = sub

\* s.split("#")
RECURSIVE split_hash(_)
split_hash(s) ==
    LET cuts == {k \in 1..Len(s) : s[k] = "#"}
    IN  IF cuts = {} THEN <<s>>
        ELSE LET c == CHOOSE k \in cuts : \A m \in cuts : k <= m
             IN  <<SubSeq(s, 1, c - 1)>> \o split_hash(SubSeq(s, c + 1, Len(s)))

Min(S) == CHOOSE x \in S : \A y \in S : x <= y

----------------------------------------------------------------------------
(* The parsed document tree (bs4) *)

\* the value of a missing id attribute
None == <<"None">>

NavigableString(s) == [name |-> "", id |-> None, contents |-> <<>>, string |-> s]

Tag(name, id, contents) ==
    [name |-> name, id |-> id, contents |-> contents, string |-> <<>>]

BeautifulSoup(contents) == Tag("[document]", None, contents)

\* Tag.get_text(): the concatenation of every string below the node
RECURSIVE get_text(_)
get_text(node) ==
    IF node.name = "" THEN node.string
    ELSE concat([k \in 1..Len(node.contents) |-> get_text(node.contents[k])])

\* whether find(id=anchor) accepts this node.  An empty anchor matches a tag
\* without id attribute on parsers that let None match "", and nothing on
\* the others.
id_matches(node, anchor, legacy) ==
    /\ node.name # ""
    /\ IF anchor = <<>> THEN legacy /\ node.id = None ELSE node.id = anchor

\* soup.find(id=anchor): path (child indices) of the first match in document
\* order, <<>> when there is none
RECURSIVE find(_, _, _)
find(tag, anchor, legacy) ==
    LET kids == tag.contents
        hit(k) == IF id_matches(kids[k], anchor, legacy) THEN <<k>>
                  ELSE LET sub == find(kids[k], anchor, legacy)
                       IN  IF sub = <<>> THEN <<>> ELSE <<k>> \o sub
        hits == {k \in 1..Len(kids) : hit(k) # <<>>}
    IN  IF hits = {} THEN <<>> ELSE hit(Min(hits))

\* the node at a path
RECURSIVE node_at(_, _)
node_at(tag, path) ==
    IF path = <<>> THEN tag ELSE node_at(tag.contents[Head(path)], Tail(path))

parent_of(tag, path) == node_at(tag, SubSeq(path, 1, Len(path) - 1))

\* element.next_siblings, in document order
next_siblings(tag, path) ==
    LET sibs == parent_of(tag, path).contents
    IN  SubSeq(sibs, path[Len(path)] + 1, Len(sibs))

\* element.previous_siblings, nearest first
previous_siblings(tag, path) ==
    LET n == path[Len(path)] - 1
        sibs == parent_of(tag, path).contents
    IN  [k \in 1..n |-> sibs[n + 1 - k]]

\* what one sibling appends to the result list: a tag its text, a string
\* its trimmed literal
sibling_text(sibling) ==
    IF sibling.name # "" THEN get_text(sibling) ELSE strip(sibling.string)

----------------------------------------------------------------------------
(* Anchor-relative sibling extraction *)

extract_text_after_anchor(s, anchor, legacy) ==
    LET element == find(s, anchor, legacy)
        own == IF get_text(node_at(s, element)) # <<>>
               THEN <<get_text(node_at(s, element))>> ELSE <<>>
        sibs == next_siblings(s, element)
    IN  IF element = <<>> THEN <<>>
        ELSE join(<<"\n">>, own \o [k \in 1..Len(sibs) |-> sibling_text(sibs[k])])

\* variant of insert_front_all: result.append instead of result.insert(0, ...)
RECURSIVE append_all(_, _)
append_all(acc, sibs) ==
    IF sibs = <<>> THEN acc
    ELSE append_all(acc \o <<sibling_text(Head(sibs))>>, Tail(sibs))

\* result.insert(0, ...) over the siblings walked nearest first
RECURSIVE insert_front_all(_, _)
insert_front_all(acc, sibs) ==
    IF sibs = <<>> THEN acc
    ELSE insert_front_all(<<sibling_text(Head(sibs))>> \o acc, Tail(sibs))

extract_text_before_anchor(s, anchor, legacy) ==
    LET element == find(s, anchor, legacy)
    IN  IF element = <<>> THEN <<>>
        ELSE strip(join(<<"\n">>,
                        insert_front_all(<<>>, previous_siblings(s, element))))

\* variant of until_end: the break comes after the append, so the end element
\* is walked too
RECURSIVE until_end_inclusive(_, _)
until_end_inclusive(sibs, end_element) ==
    IF sibs = <<>> THEN <<>>
    ELSE IF Head(sibs) = end_element THEN <<Head(sibs)>>
    ELSE <<Head(sibs)>> \o until_end_inclusive(Tail(sibs), end_element)

\* the siblings walked before the loop breaks on one equal to the end element
RECURSIVE until_end(_, _)
until_end(sibs, end_element) ==
    IF sibs = <<>> \/ Head(sibs) = end_element THEN <<>>
    ELSE <<Head(sibs)>> \o until_end(Tail(sibs), end_element)

\* variant of extract_text_between_anchors: no fallback for a missing end
\* node, the walk simply never meets it
extract_text_between_anchors_no_end_check(s, sa, ea, legacy) ==
    LET start_element == find(s, sa, legacy)
        end_element == find(s, ea, legacy)
        own == IF get_text(node_at(s, start_element)) # <<>>
               THEN <<get_text(node_at(s, start_element))>> ELSE <<>>
        sibs == until_end(next_siblings(s, start_element),
                          node_at(s, end_element))
    IN  IF start_element = <<>> THEN extract_text_before_anchor(s, ea, legacy)
        ELSE strip(join(<<"\n">>,
                        own \o [k \in 1..Len(sibs) |-> sibling_text(sibs[k])]))

extract_text_between_anchors(s, sa, ea, legacy) ==
    LET start_element == find(s, sa, legacy)
        end_element == find(s, ea, legacy)
        own == IF get_text(node_at(s, start_element)) # <<>>
               THEN <<get_text(node_at(s, start_element))>> ELSE <<>>
        sibs == until_end(next_siblings(s, start_element),
                          node_at(s, end_element))
    IN  IF start_element = <<>> THEN extract_text_before_anchor(s, ea, legacy)
        ELSE IF end_element = <<>> THEN extract_text_after_anchor(s, sa, legacy)
        ELSE strip(join(<<"\n">>,
                        own \o [k \in 1..Len(sibs) |-> sibling_text(sibs[k])]))

----------------------------------------------------------------------------
(* Inputs of the anchor routines *)

\* leaf nodes: strings (one blank, one padded) and tags with and without id
LeafNodes ==
    { NavigableString(<<"\n">>),
      NavigableString(<<" ", "W", " ">>),
      Tag("p", None, <<NavigableString(<<"Y">>)>>),
      Tag("a", <<"s">>, <<>>),
      Tag("h", <<"s">>, <<NavigableString(<<"X">>)>>),
      Tag("a", <<"e">>, <<>>),
      Tag("h", <<"e">>, <<NavigableString(<<"Z", "\n">>)>>) }

\* tags whose anchors sit one level down
NestedNodes ==
    { Tag("d", None, <<Tag("h", <<"s">>, <<NavigableString(<<"X">>)>>),
                       NavigableString(<<" ", "W", " ">>)>>),
      Tag("d", None, <<NavigableString(<<" ", "W", " ">>),
                       Tag("h", <<"e">>, <<NavigableString(<<"Z", "\n">>)>>)>>) }

Nodes == LeafNodes \cup NestedNodes

SeqsUpTo(S, n) == UNION {[1..m -> S] : m \in 0..n}

Soups == {BeautifulSoup(c) : c \in SeqsUpTo(Nodes, MaxNodes)}

\* anchor ids: two that documents may carry, and the empty one
Anchors == {<<"s">>, <<"e">>, <<>>}

----------------------------------------------------------------------------
(* Values of the variables a specification does not use *)

NoBook == [toc |-> <<>>, items |-> <<>>]

AnchorIdle ==
    /\ soup = BeautifulSoup(<<>>) /\ start_anchor = <<>> /\ end_anchor = <<>>

ScanIdle ==
    /\ start_href = <<>> /\ end_href = <<>> /\ flag = FALSE /\ text = <<>>
    /\ item_idx = 0

TocIdle ==
    /\ toc = <<>> /\ prefix = <<>> /\ titles = <<>> /\ toc_idx = 0

SplitIdle ==
    /\ bookmarks = <<>> /\ chapters = <<>> /\ i = 0 /\ run = 1
    /\ prev_chapters = <<>>

\* hotkey names as the configuration file and the line edits hold them
F2 == <<"F", "2">>
F3 == <<"F", "3">>
F4 == <<"F", "4">>

\* AppConfig(): the field defaults of the dataclass
AppConfig ==
    [save_dir |-> None, mode |-> "with_header",
     hotkey_start |-> F2, hotkey_capture |-> F3, hotkey_stop |-> F4,
     only_clipboard |-> FALSE, region_large |-> None, region_small |-> None]

\* what a stop handler that returned at once copied, saved and signalled
NothingDone ==
    [copied |-> FALSE, save_attempted |-> FALSE, saved |-> FALSE,
     notified |-> FALSE]

ShotIdle ==
    /\ config = AppConfig /\ frames = <<>> /\ first_shot_done = FALSE
    /\ event = "none" /\ stop_did = NothingDone

HotkeyIdle ==
    /\ edits = <<F2, F3, F4>> /\ hotkey_dirty = FALSE
    /\ hotkey_handles = <<>> /\ hooks = {}

anchorVars == <<soup, start_anchor, end_anchor>>
scanVars == <<start_href, end_href, flag, text, item_idx>>
tocVars == <<toc, prefix, titles, toc_idx>>
splitVars == <<bookmarks, chapters, i, run, prev_chapters>>
shotVars == <<config, frames, first_shot_done, event, stop_did>>
hotkeyVars == <<edits, hotkey_dirty, hotkey_handles, hooks>>
epubVars == <<bs4_legacy, result, book, anchorVars, scanVars, tocVars,
              splitVars>>

----------------------------------------------------------------------------
(* AnchorSpec: one call of an anchor routine on one document *)

AnchorInit ==
    /\ pc = "call"
    /\ bs4_legacy \in BOOLEAN
    /\ soup \in Soups
    /\ start_anchor \in Anchors
    /\ end_anchor \in Anchors
    /\ result = <<>>
    /\ book = NoBook
    /\ ScanIdle /\ TocIdle /\ SplitIdle /\ ShotIdle /\ HotkeyIdle

CallBetween ==
    /\ pc = "call"
    /\ result' = extract_text_between_anchors(soup, start_anchor, end_anchor,
                                              bs4_legacy)
    /\ pc' = "between"
    /\ UNCHANGED <<bs4_legacy, book, anchorVars, scanVars, tocVars, splitVars,
                   shotVars, hotkeyVars>>

CallAfter ==
    /\ pc = "call"
    /\ result' = extract_text_after_anchor(soup, start_anchor, bs4_legacy)
    /\ pc' = "after"
    /\ UNCHANGED <<bs4_legacy, book, anchorVars, scanVars, tocVars, splitVars,
                   shotVars, hotkeyVars>>

CallBefore ==
    /\ pc = "call"
    /\ result' = extract_text_before_anchor(soup, end_anchor, bs4_legacy)
    /\ pc' = "before"
    /\ UNCHANGED <<bs4_legacy, book, anchorVars, scanVars, tocVars, splitVars,
                   shotVars, hotkeyVars>>

AnchorNext == CallBetween \/ CallAfter \/ CallBefore

AnchorSpec == AnchorInit /\ [][AnchorNext]_vars

----------------------------------------------------------------------------
(* Claims about the anchor routines (AnchorSpec) *)

StartPath == find(soup, start_anchor, bs4_legacy)
EndPath == find(soup, end_anchor, bs4_legacy)

\* the end node is a later sibling of the start node
EndIsLaterSibling ==
    /\ StartPath # <<>> /\ EndPath # <<>>
    /\ Len(StartPath) = Len(EndPath)
    /\ SubSeq(StartPath, 1, Len(StartPath) - 1)
         = SubSeq(EndPath, 1, Len(EndPath) - 1)
    /\ StartPath[Len(StartPath)] < EndPath[Len(EndPath)]

\* the siblings strictly between the start node and the end node
SiblingsBetween ==
    SubSeq(parent_of(soup, StartPath).contents,
           StartPath[Len(StartPath)] + 1, EndPath[Len(EndPath)] - 1)

\* C4: between-anchors with the same existing anchor as start and end returns
\* the start node's own text only (as it is, or trimmed), nothing of any
\* following sibling.
C4_ZeroWidthSpanIsOwnText ==
    (pc = "between" /\ start_anchor = end_anchor /\ StartPath # <<>>)
        => result \in { get_text(node_at(soup, StartPath)),
                        strip(get_text(node_at(soup, StartPath))) }

\* C5: when the end node is a later sibling of the start node, the result is
\* the start node's text followed by the text of each sibling strictly between
\* the two, in document order, joined by newline and trimmed; the end node and
\* what follows it are left out.
C5_BetweenLaterSibling ==
    (pc = "between" /\ EndIsLaterSibling)
        => result = strip(join(<<"\n">>,
                       <<get_text(node_at(soup, StartPath))>>
                       \o [k \in 1..Len(SiblingsBetween) |->
                              sibling_text(SiblingsBetween[k])]))

\* the spec's example: [id=s]"X", <p>Y</p>, [id=e]"Z" gives "X\nY"
C5_Witness ==
    /\ pc = "between" /\ EndIsLaterSibling
    /\ Len(SiblingsBetween) = 1
    /\ get_text(node_at(soup, EndPath)) # <<>>
    /\ result = <<"X", "\n", "Y">>

\* C6: with exactly one anchor node missing, between-anchors returns the
\* single-anchor result on the other anchor: after-anchor on the start when
\* the end node is absent, before-anchor on the end when the start node is
\* absent.
C6_MissingAnchorFallsBack ==
    /\ (pc = "between" /\ StartPath # <<>> /\ EndPath = <<>>)
         => result = extract_text_after_anchor(soup, start_anchor, bs4_legacy)
    /\ (pc = "between" /\ StartPath = <<>> /\ EndPath # <<>>)
         => result = extract_text_before_anchor(soup, end_anchor, bs4_legacy)

\* an absent end node, and a result that the after-anchor case leaves untrimmed
C6_Witness ==
    /\ pc = "between" /\ StartPath # <<>> /\ EndPath = <<>>
    /\ end_anchor # <<>>
    /\ result # <<>> /\ result # strip(result)

\* the siblings that precede the end anchor's node, in document order
SiblingsBefore ==
    SubSeq(parent_of(soup, EndPath).contents, 1, EndPath[Len(EndPath)] - 1)

\* C14: when the anchor node exists, before-anchor returns the texts of the
\* siblings that precede it, in document order, joined by newline and trimmed;
\* the anchor node's own text and the following siblings are left out.
C14_BeforeInDocumentOrder ==
    (pc = "before" /\ EndPath # <<>>)
        => result = strip(join(<<"\n">>,
                       [k \in 1..Len(SiblingsBefore) |->
                           sibling_text(SiblingsBefore[k])]))

\* two preceding siblings with different texts and an anchor node with text
C14_Witness ==
    /\ pc = "before" /\ EndPath # <<>>
    /\ Len(SiblingsBefore) = 2
    /\ sibling_text(SiblingsBefore[1]) # sibling_text(SiblingsBefore[2])
    /\ sibling_text(SiblingsBefore[1]) # <<>>
    /\ sibling_text(SiblingsBefore[2]) # <<>>
    /\ get_text(node_at(soup, EndPath)) # <<>>
    /\ result # <<>>

----------------------------------------------------------------------------
(* Table of contents and its flattening *)

\* epub.Link(href, title)
Link(title, href) ==
    [kind |-> "Link", title |-> title, href |-> href, children |-> <<>>]

\* (epub.Section(title), [children]): a tuple
Group(title, children) ==
    [kind |-> "tuple", title |-> title, href |-> <<>>, children |-> children]

\* an entry that is neither a Link nor a tuple (a bare Section)
Section(title) ==
    [kind |-> "Section", title |-> title, href |-> <<>>, children |-> <<>>]

\* variant of candidate_title: the prefix is dropped
candidate_title_no_prefix(pfx, item) == item.title

\* the title a Link gets before deduplication
candidate_title(pfx, item) ==
    IF pfx # <<>> THEN pfx \o <<"|">> \o item.title ELSE item.title

\* the Link branch of the loop body: titles.append(title), then the suffix
\* when the title was seen before in this pass
emitted_title(seen, title) ==
    LET appended == Append(seen, title)
    IN  IF is_in(title, SubSeq(appended, 1, Len(appended) - 1))
        THEN title \o str(count(appended, title) + 1)
        ELSE title

RECURSIVE extract_bookmarks(_, _)

\* one iteration of the loop of extract_bookmarks on st = [titles, bookmarks]
bookmarks_step(st, item, pfx) ==
    IF item.kind = "Link"
    THEN LET title == candidate_title(pfx, item)
         IN  [titles |-> Append(st.titles, title),
              bookmarks |-> Append(st.bookmarks,
                                   <<emitted_title(st.titles, title), item.href>>)]
    ELSE IF item.kind = "tuple"
    THEN [titles |-> st.titles,
          bookmarks |-> st.bookmarks \o extract_bookmarks(item.children, item.title)]
    ELSE st

RECURSIVE bookmarks_loop(_, _, _)
bookmarks_loop(st, items, pfx) ==
    IF items = <<>> THEN st
    ELSE bookmarks_loop(bookmarks_step(st, Head(items), pfx), Tail(items), pfx)

extract_bookmarks(t, pfx) ==
    bookmarks_loop([titles |-> <<>>, bookmarks |-> <<>>], t, pfx).bookmarks

----------------------------------------------------------------------------
(* TocSpec: one call of extract_bookmarks, one loop iteration per step *)

TocLinks ==
    { Link(<<"A">>, <<"a">>), Link(<<"A">>, <<"b", "#", "s">>),
      Link(<<"A", "3">>, <<"a">>), Link(<<"B">>, <<"b", "#", "s">>) }

TocGroups ==
    { Group(<<"G">>, <<Link(<<"A">>, <<"a">>)>>),
      Group(<<"G">>, <<Link(<<"A">>, <<"a">>), Link(<<"A">>, <<"b", "#", "s">>)>>),
      Group(<<"G">>, <<Group(<<"H">>, <<Link(<<"A">>, <<"a">>)>>),
                       Link(<<"B">>, <<"b", "#", "s">>)>>) }

TocItems == TocLinks \cup TocGroups \cup {Section(<<"S">>)}

Tocs == SeqsUpTo(TocItems, MaxToc)

TocInit ==
    /\ pc = "toc_loop"
    /\ toc \in Tocs
    /\ prefix \in {<<>>, <<"G">>}
    /\ titles = <<>> /\ bookmarks = <<>> /\ toc_idx = 0
    /\ bs4_legacy = FALSE /\ result = <<>> /\ book = NoBook
    /\ chapters = <<>> /\ i = 0 /\ run = 1 /\ prev_chapters = <<>>
    /\ AnchorIdle /\ ScanIdle /\ ShotIdle /\ HotkeyIdle

\* for item in toc: the body on the next item
TocIterate ==
    /\ pc = "toc_loop"
    /\ toc_idx < Len(toc)
    /\ LET st == bookmarks_step([titles |-> titles, bookmarks |-> bookmarks],
                                toc[toc_idx + 1], prefix)
       IN  /\ titles' = st.titles
           /\ bookmarks' = st.bookmarks
    /\ toc_idx' = toc_idx + 1
    /\ UNCHANGED <<pc, bs4_legacy, result, book, toc, prefix, anchorVars,
                   scanVars, chapters, i, run, prev_chapters, shotVars,
                   hotkeyVars>>

\* the kind of the item the loop is about to process
next_toc_kind == IF toc_idx < Len(toc) THEN toc[toc_idx + 1].kind ELSE "none"

\* isinstance(item, epub.Link)
TocLink ==
    /\ next_toc_kind = "Link"
    /\ TocIterate

\* isinstance(item, tuple)
TocTuple ==
    /\ next_toc_kind = "tuple"
    /\ TocIterate

\* neither: the item is passed over
TocOther ==
    /\ next_toc_kind = "Section"
    /\ TocIterate

\* return bookmarks
TocReturn ==
    /\ pc = "toc_loop"
    /\ toc_idx = Len(toc)
    /\ pc' = "toc_done"
    /\ UNCHANGED <<bs4_legacy, result, book, toc, prefix, titles, bookmarks,
                   toc_idx, anchorVars, scanVars, chapters, i, run,
                   prev_chapters, shotVars, hotkeyVars>>

TocNext == TocLink \/ TocTuple \/ TocOther \/ TocReturn

TocSpec == TocInit /\ [][TocNext]_vars

----------------------------------------------------------------------------
(* Claims about extract_bookmarks (TocSpec) *)

\* the Links of this pass before the one just processed that have its title
PriorOccurrences ==
    Cardinality({k \in 1..(toc_idx - 1) :
                    /\ toc[k].kind = "Link"
                    /\ toc[k].title = toc[toc_idx].title})

\* C3: a Link whose candidate title occurred k >= 1 times before in the pass
\* is emitted as the candidate followed by str(k + 1); leaves "A", "A" give
\* "A", "A2".
C3_DuplicateGetsCountPlusOne ==
    (toc_idx >= 1 /\ toc[toc_idx].kind = "Link" /\ PriorOccurrences >= 1)
        => bookmarks[Len(bookmarks)][1]
             = candidate_title(prefix, toc[toc_idx]) \o str(PriorOccurrences + 1)

\* the leaves of a table of contents in depth-first pre-order, each with its
\* href, its title behind the immediate parent's title, and whether an earlier
\* leaf of the same list has that same title
RECURSIVE Leaves(_, _)
Leaves(t, parent) ==
    IF t = <<>> THEN <<>>
    ELSE LET item == t[Len(t)]
             front == SubSeq(t, 1, Len(t) - 1)
         IN  Leaves(front, parent) \o
             (IF item.kind = "Link"
              THEN <<[title |-> IF parent # <<>>
                                THEN parent \o <<"|">> \o item.title
                                ELSE item.title,
                      href |-> item.href,
                      repeated |-> \E k \in 1..Len(front) :
                                      /\ front[k].kind = "Link"
                                      /\ front[k].title = item.title]>>
              ELSE IF item.kind = "tuple" THEN Leaves(item.children, item.title)
              ELSE <<>>)

\* the decimal suffixes a title can get
Suffixes == {str(n) : n \in 1..(MaxToc + 2)}

\* C12 as stated: one bookmark per leaf in depth-first pre-order, with the
\* leaf's href, titled exactly parentTitle|leafTitle (leafTitle at the root).
C12_TitleIsPrefixedLeafTitle ==
    pc = "toc_done"
        => /\ Len(bookmarks) = Len(Leaves(toc, prefix))
           /\ \A k \in 1..Len(bookmarks) :
                 /\ bookmarks[k][2] = Leaves(toc, prefix)[k].href
                 /\ bookmarks[k][1] = Leaves(toc, prefix)[k].title

\* C12, amended: one bookmark per leaf in depth-first pre-order, with the
\* leaf's href; the title is parentTitle|leafTitle (leafTitle at the root),
\* followed by a decimal number exactly when an earlier leaf of the same list
\* has the same title.
C12_OneBookmarkPerLeaf ==
    pc = "toc_done"
        => /\ Len(bookmarks) = Len(Leaves(toc, prefix))
           /\ \A k \in 1..Len(bookmarks) :
                 LET leaf == Leaves(toc, prefix)[k]
                 IN  /\ bookmarks[k][2] = leaf.href
                     /\ IF leaf.repeated
                        THEN \E d \in Suffixes : bookmarks[k][1] = leaf.title \o d
                        ELSE bookmarks[k][1] = leaf.title

\* a flattened list with a leaf two groups deep, titled by its immediate
\* parent only, and a repeated title
C12_Witness ==
    /\ pc = "toc_done"
    /\ prefix = <<>>
    /\ \E k \in 1..Len(bookmarks) : bookmarks[k][1] = <<"H", "|", "A">>
    /\ \E k \in 1..Len(bookmarks) : bookmarks[k][1] = <<"G", "|", "B">>
    /\ \E k \in 1..Len(bookmarks) : Leaves(toc, prefix)[k].repeated

\* C13: the titles emitted in one pass are pairwise distinct (a list of Links
\* only is one pass).
C13_TitlesDistinct ==
    (pc = "toc_done" /\ \A k \in 1..Len(toc) : toc[k].kind = "Link")
        => \A j, k \in 1..Len(bookmarks) :
              j # k => bookmarks[j][1] # bookmarks[k][1]

----------------------------------------------------------------------------
(* extract_text_by_bookmark *)

\* href.split("#")[0]
href_name(href) == split_hash(href)[1]

\* href.split("#")[1] if "#" in href else ""
href_anchor(href) == IF contains(<<"#">>, href) THEN split_hash(href)[2] ELSE <<>>

\* a content item: its file name and the tree its content parses to
Item(file_name, s) == [file_name |-> file_name, soup |-> s]

\* same-document path: the first item whose name contains start_name, 0 if none
same_document_item(items, start_name) ==
    LET hits == {k \in 1..Len(items) : contains(start_name, items[k].file_name)}
    IN  IF hits = {} THEN 0 ELSE Min(hits)

\* the branch the loop body takes on an item
scan_branch(item, fl, start_name, end_name) ==
    IF contains(start_name, item.file_name) THEN "start"
    ELSE IF contains(end_name, item.file_name) THEN "end"
    ELSE IF fl THEN "inside"
    ELSE "skip"

\* one iteration of the scan loop on st = [flag, text]
scan_step(st, item, sh, eh, legacy) ==
    LET branch == scan_branch(item, st.flag, href_name(sh), href_name(eh))
    IN  IF branch = "start"
        THEN [flag |-> TRUE,
              text |-> st.text \o
                  (IF href_anchor(sh) # <<>>
                   THEN extract_text_after_anchor(item.soup, href_anchor(sh), legacy)
                   ELSE get_text(item.soup))]
        ELSE IF branch = "end"
        THEN [flag |-> FALSE,
              text |-> st.text \o
                  (IF href_anchor(eh) # <<>>
                   THEN extract_text_before_anchor(item.soup, href_anchor(eh), legacy)
                   ELSE <<>>)]
        ELSE IF branch = "inside"
        THEN [flag |-> st.flag, text |-> st.text \o get_text(item.soup)]
        ELSE st

RECURSIVE scan_loop(_, _, _, _, _)
scan_loop(st, items, sh, eh, legacy) ==
    IF items = <<>> THEN st
    ELSE scan_loop(scan_step(st, Head(items), sh, eh, legacy),
                   Tail(items), sh, eh, legacy)

extract_text_by_bookmark(items, sh, eh, legacy) ==
    IF href_name(sh) = href_name(eh)
    THEN LET k == same_document_item(items, href_name(sh))
         IN  IF k = 0 THEN <<>>
             ELSE extract_text_between_anchors(items[k].soup, href_anchor(sh),
                                               href_anchor(eh), legacy)
    ELSE scan_loop([flag |-> FALSE, text |-> <<>>], items, sh, eh, legacy).text

----------------------------------------------------------------------------
(* ScanSpec: one call of extract_text_by_bookmark, one item per step *)

\* a document with both anchors at the top level, and one without anchors
DocAnchored ==
    BeautifulSoup(<<Tag("h", <<"s">>, <<NavigableString(<<"X">>)>>),
                    Tag("p", None, <<NavigableString(<<"Y">>)>>),
                    Tag("h", <<"e">>, <<NavigableString(<<"Z", "\n">>)>>)>>)

DocPlain ==
    BeautifulSoup(<<NavigableString(<<" ", "W", " ">>),
                    Tag("p", None, <<NavigableString(<<"Y">>)>>)>>)

ScanSoups == {DocAnchored, DocPlain}

\* file names; "ab" contains both "a" and "b"
FileNames == {<<"a">>, <<"b">>, <<"a", "b">>}

\* ordered collections of items with pairwise distinct file names
ItemLists(n) ==
    {l \in SeqsUpTo({Item(f, d) : f \in FileNames, d \in ScanSoups}, n) :
        \A j, k \in 1..Len(l) : j # k => l[j].file_name # l[k].file_name}

StartHrefs == {<<"a">>, <<"a", "#", "s">>, <<"b", "#", "e">>, <<"d">>}

EndHrefs == {<<>>, <<"a", "#", "s">>, <<"b">>, <<"b", "#", "e">>, <<"d", "#", "e">>}

ScanInit ==
    /\ pc = "scan_entry"
    /\ bs4_legacy \in BOOLEAN
    /\ book \in {[toc |-> <<>>, items |-> l] : l \in ItemLists(MaxScanItems)}
    /\ start_href \in StartHrefs
    /\ end_href \in EndHrefs
    /\ flag = FALSE /\ text = <<>> /\ item_idx = 0
    /\ result = <<>>
    /\ AnchorIdle /\ TocIdle /\ SplitIdle /\ ShotIdle /\ HotkeyIdle

ScanUnchanged ==
    UNCHANGED <<bs4_legacy, book, start_href, end_href, anchorVars, tocVars,
                splitVars, shotVars, hotkeyVars>>

\* start_name == end_name and a matching item exists: return the span
\* between the two anchors of that one document
ScanSameDocument ==
    /\ pc = "scan_entry"
    /\ href_name(start_href) = href_name(end_href)
    /\ same_document_item(book.items, href_name(start_href)) # 0
    /\ result' = extract_text_by_bookmark(book.items, start_href, end_href, bs4_legacy)
    /\ pc' = "scan_done"
    /\ UNCHANGED <<flag, text, item_idx>>
    /\ ScanUnchanged

\* start_name == end_name and no item matches: "href not found.", return ""
ScanHrefNotFound ==
    /\ pc = "scan_entry"
    /\ href_name(start_href) = href_name(end_href)
    /\ same_document_item(book.items, href_name(start_href)) = 0
    /\ result' = <<>>
    /\ pc' = "scan_done"
    /\ UNCHANGED <<flag, text, item_idx>>
    /\ ScanUnchanged

\* different names: flag = False, text = "", enter the loop
ScanEnterLoop ==
    /\ pc = "scan_entry"
    /\ href_name(start_href) # href_name(end_href)
    /\ pc' = "scan_loop"
    /\ flag' = FALSE /\ text' = <<>> /\ item_idx' = 0
    /\ UNCHANGED result
    /\ ScanUnchanged

\* for item in book.get_items(): the body on the next item
ScanIterate ==
    /\ pc = "scan_loop"
    /\ item_idx < Len(book.items)
    /\ LET st == scan_step([flag |-> flag, text |-> text],
                           book.items[item_idx + 1], start_href, end_href,
                           bs4_legacy)
       IN  /\ flag' = st.flag
           /\ text' = st.text
    /\ item_idx' = item_idx + 1
    /\ UNCHANGED <<pc, result>>
    /\ ScanUnchanged

\* the branch the loop is about to take
next_scan_branch ==
    IF pc = "scan_loop" /\ item_idx < Len(book.items)
    THEN scan_branch(book.items[item_idx + 1], flag, href_name(start_href),
                     href_name(end_href))
    ELSE "none"

\* if start_name in item.file_name
ScanStartDocument ==
    /\ next_scan_branch = "start"
    /\ ScanIterate

\* elif end_name in item.file_name
ScanEndDocument ==
    /\ next_scan_branch = "end"
    /\ ScanIterate

\* elif flag
ScanInsideDocument ==
    /\ next_scan_branch = "inside"
    /\ ScanIterate

\* no branch: the item is passed over
ScanSkipDocument ==
    /\ next_scan_branch = "skip"
    /\ ScanIterate

\* return text
ScanReturn ==
    /\ pc = "scan_loop"
    /\ item_idx = Len(book.items)
    /\ result' = text
    /\ pc' = "scan_done"
    /\ UNCHANGED <<flag, text, item_idx>>
    /\ ScanUnchanged

ScanNext ==
    \/ ScanSameDocument \/ ScanHrefNotFound \/ ScanEnterLoop
    \/ ScanStartDocument \/ ScanEndDocument \/ ScanInsideDocument
    \/ ScanSkipDocument \/ ScanReturn

ScanSpec == ScanInit /\ [][ScanNext]_vars

----------------------------------------------------------------------------
(* Claims about extract_text_by_bookmark (ScanSpec) *)

\* position of the start document: the first item whose name contains the
\* start name (0 if none)
StartDocument == same_document_item(book.items, href_name(start_href))

\* position of the end document: the first item after the start document
\* whose name contains the end name and not the start name (0 if none)
EndDocument ==
    LET hits == {k \in (StartDocument + 1)..Len(book.items) :
                    /\ contains(href_name(end_href), book.items[k].file_name)
                    /\ ~contains(href_name(start_href), book.items[k].file_name)}
    IN  IF StartDocument = 0 \/ hits = {} THEN 0 ELSE Min(hits)

\* the loop body runs on the item at position k in this step
Scans(k) == pc = "scan_loop" /\ item_idx = k - 1 /\ item_idx' = k

\* C2: with the sentinel end reference "", every document after the start
\* document contributes its full text.
C2_SentinelRunsToEnd ==
    [][\A k \in 1..Len(book.items) :
         (/\ Scans(k)
          /\ end_href = <<>>
          /\ StartDocument # 0 /\ StartDocument < k
          /\ ~contains(href_name(start_href), book.items[k].file_name))
            => text' = text \o get_text(book.items[k].soup)]_vars

\* C9: with different start and end document names, no document that
\* precedes the start document contributes any text.
C9_NothingBeforeStart ==
    [][\A k \in 1..Len(book.items) :
         (/\ Scans(k)
          /\ StartDocument # 0 /\ k < StartDocument)
            => text' = text]_vars

\* C10: with different start and end document names, the end document
\* contributes only the text before its end anchor (nothing without an anchor
\* id), and no document after it contributes any text.
C10_ScanStopsAtEnd ==
    [][\A k \in 1..Len(book.items) :
         (/\ Scans(k)
          /\ end_href # <<>>
          /\ EndDocument # 0)
            => /\ k = EndDocument =>
                    text' = text \o
                        (IF href_anchor(end_href) # <<>>
                         THEN extract_text_before_anchor(
                                  book.items[k].soup, href_anchor(end_href),
                                  bs4_legacy)
                         ELSE <<>>)
               /\ k > EndDocument => text' = text]_vars

\* C11: when no document of the collection matches the start reference, the
\* routine returns the empty string, on the same-document path and on the
\* different-documents path.
C11_MissingStartGivesEmpty ==
    (pc = "scan_done" /\ StartDocument = 0) => result = <<>>

----------------------------------------------------------------------------
(* split_text_by_bookmarks *)

\* variant of initial_chapters: the list outlives the call (a shared default)
initial_chapters_shared(previous) == previous

\* chapters = []
initial_chapters(previous) == <<>>

\* bookmarks[i+1][1] if i < n-1 else ""  (i is 0-based)
next_href(bms, k) == IF k < Len(bms) - 1 THEN bms[k + 2][2] ELSE <<>>

\* variant of append_chapter: a chapter whose lookup gave nothing is dropped
append_chapter_unless_empty(chs, title, content) ==
    IF content = <<>> THEN chs
    ELSE Append(chs, [title |-> title, content |-> content])

\* chapters.append({"title": title, "content": content})
append_chapter(chs, title, content) ==
    Append(chs, [title |-> title, content |-> content])

\* the body of the loop for the bookmark at 0-based index k
split_step(chs, bms, k, items, legacy) ==
    append_chapter(chs, bms[k + 1][1],
                   extract_text_by_bookmark(items, bms[k + 1][2],
                                            next_href(bms, k), legacy))

----------------------------------------------------------------------------
(* Spec: the script, split_text_by_bookmarks on one book, run MaxRuns times *)

SplitTocItems ==
    { Link(<<"A">>, <<"a">>), Link(<<"A">>, <<"a", "#", "s">>),
      Link(<<"B">>, <<"b", "#", "e">>), Link(<<"B">>, <<"d", "#", "s">>),
      Group(<<"G">>, <<Link(<<"A">>, <<"a", "#", "e">>)>>) }

Books ==
    {[toc |-> t, items |-> l] :
        t \in SeqsUpTo(SplitTocItems, MaxSplitToc), l \in ItemLists(MaxSplitItems)}

Init ==
    /\ pc = "split_entry"
    /\ bs4_legacy \in BOOLEAN
    /\ book \in Books
    /\ bookmarks = <<>> /\ chapters = <<>> /\ i = 0
    /\ run = 1 /\ prev_chapters = <<>>
    /\ result = <<>>
    /\ AnchorIdle /\ ScanIdle /\ TocIdle /\ ShotIdle /\ HotkeyIdle

SplitUnchanged ==
    UNCHANGED <<bs4_legacy, book, result, anchorVars, scanVars, tocVars,
                shotVars, hotkeyVars>>

\* chapters = []; bookmarks = extract_bookmarks(book.toc); n = len(bookmarks)
SplitEnter ==
    /\ pc = "split_entry"
    /\ chapters' = initial_chapters(chapters)
    /\ bookmarks' = extract_bookmarks(book.toc, <<>>)
    /\ i' = 0
    /\ pc' = "split_loop"
    /\ UNCHANGED <<run, prev_chapters>>
    /\ SplitUnchanged

\* one iteration of the loop over the bookmarks
SplitChapter ==
    /\ pc = "split_loop"
    /\ i < Len(bookmarks)
    /\ chapters' = split_step(chapters, bookmarks, i, book.items, bs4_legacy)
    /\ i' = i + 1
    /\ UNCHANGED <<pc, bookmarks, run, prev_chapters>>
    /\ SplitUnchanged

\* return chapters
SplitReturn ==
    /\ pc = "split_loop"
    /\ i = Len(bookmarks)
    /\ pc' = "split_done"
    /\ UNCHANGED <<bookmarks, chapters, i, run, prev_chapters>>
    /\ SplitUnchanged

\* the script is run again on the same archive
RunAgain ==
    /\ pc = "split_done"
    /\ run < MaxRuns
    /\ prev_chapters' = chapters
    /\ run' = run + 1
    /\ pc' = "split_entry"
    /\ UNCHANGED <<bookmarks, chapters, i>>
    /\ SplitUnchanged

Next == SplitEnter \/ SplitChapter \/ SplitReturn \/ RunAgain

Spec == Init /\ [][Next]_vars

----------------------------------------------------------------------------
(* Claims about split_text_by_bookmarks (Spec) *)

\* the bookmark list the table of contents flattens to
Flattened == extract_bookmarks(book.toc, <<>>)

\* C1: the returned list has one chapter per bookmark, and the k-th chapter's
\* title is the k-th bookmark's title, whether or not a document or anchor
\* lookup fails.
C1_OneChapterPerBookmark ==
    pc = "split_done"
        => /\ Len(chapters) = Len(Flattened)
           /\ \A k \in 1..Len(Flattened) : chapters[k].title = Flattened[k][1]

\* two or more chapters returned, one of them for a document that is not in
\* the collection
C1_Witness ==
    /\ pc = "split_done"
    /\ Len(chapters) >= 2
    /\ \E k \in 1..Len(Flattened) :
          same_document_item(book.items, href_name(Flattened[k][2])) = 0

C8_ContentTrimmed ==
    pc = "split_done"
        => \A k \in 1..Len(chapters) :
              chapters[k].content = strip(chapters[k].content)

----------------------------------------------------------------------------
(* The screenshot tool's capture session (src/ScreenShoter/main.py):        *)
(* MainWindow's frame cache under the start, capture and stop hotkeys, the *)
(* mode radio button and the region selector.                              *)

\* longest frame cache the model builds
MaxFrames == 3

\* a region (x, y, w, h) of width w and height h
Rect(w, h) == <<0, 0, w, h>>

\* grab_region: None for an empty rectangle, a missing screen or a null
\* pixmap, else the image; the image remembers which region it shows
grab_region(which, rect, screen_ok) ==
    IF rect[3] <= 0 \/ rect[4] <= 0 \/ ~screen_ok
    THEN None
    ELSE <<"image", which>>

\* clear_frames with the flag left as it is
clear_frames_keep_flag ==
    [frames |-> <<>>, first_shot_done |-> first_shot_done]

\* clear_frames: frames.clear(); first_shot_done = False
clear_frames == [frames |-> <<>>, first_shot_done |-> FALSE]

\* capture_with_header_mode: the large region first, the small region after
capture_with_header_mode(cfg, fr, done, screen_ok) ==
    IF cfg.region_large = None \/ cfg.region_small = None
    THEN [frames |-> fr, first_shot_done |-> done]
    ELSE IF ~done
         THEN LET img == grab_region("large", cfg.region_large, screen_ok)
              IN  IF img # None
                  THEN [frames |-> Append(fr, img), first_shot_done |-> TRUE]
                  ELSE [frames |-> fr, first_shot_done |-> done]
         ELSE LET img == grab_region("small", cfg.region_small, screen_ok)
              IN  IF img # None
                  THEN [frames |-> Append(fr, img), first_shot_done |-> done]
                  ELSE [frames |-> fr, first_shot_done |-> done]

\* capture_normal_mode: the small region every time
capture_normal_mode(cfg, fr, done, screen_ok) ==
    IF cfg.region_small = None
    THEN [frames |-> fr, first_shot_done |-> done]
    ELSE LET img == grab_region("small", cfg.region_small, screen_ok)
         IN  IF img # None
             THEN [frames |-> Append(fr, img), first_shot_done |-> done]
             ELSE [frames |-> fr, first_shot_done |-> done]

\* the calls of on_hotkey_stop's try block that may raise
StopFailures == {"none", "combine", "copy", "save"}

\* the call that raises in this run of the try block: save_image_to_disk
\* is reached, and touches the disk, only with only_clipboard off and a
\* save_dir
stop_raised(cfg, fail) ==
    IF fail = "save" /\ (cfg.only_clipboard \/ cfg.save_dir = None)
    THEN "none"
    ELSE fail

\* what the try block of on_hotkey_stop copied, saved and signalled
stop_try(cfg, fail) ==
    LET raised == stop_raised(cfg, fail)
        copied == raised \notin {"combine", "copy"}
        attempted == copied /\ ~cfg.only_clipboard
    IN  [copied |-> copied,
         save_attempted |-> attempted,
         saved |-> attempted /\ cfg.save_dir # None /\ raised # "save",
         notified |-> copied /\ raised # "save"]

\* the cache cleared only when the try block did not raise
stop_clear_on_success(fr, done, raised) ==
    IF raised = "none"
    THEN clear_frames
    ELSE [frames |-> fr, first_shot_done |-> done]

\* finally: clear_frames(), whether or not the try block raised
stop_finally(fr, done, raised) == clear_frames

\* on_hotkey_stop
on_hotkey_stop(cfg, fr, done, fail) ==
    IF fr = <<>>
    THEN [frames |-> fr, first_shot_done |-> done, did |-> NothingDone]
    ELSE LET after == stop_finally(fr, done, stop_raised(cfg, fail))
         IN  [frames |-> after.frames,
              first_shot_done |-> after.first_shot_done,
              did |-> stop_try(cfg, fail)]

\* config.mode as the configuration file may hold it
Modes == {"with_header", "normal", "other"}

\* a region as the configuration file may hold it
Regions == {None, Rect(1, 1), Rect(0, 1)}

\* rectangles the region selector may emit
SelectedRects == {Rect(1, 1), Rect(2, 1), Rect(1, 0)}

SaveDirs == {None, <<"d">>}

ShotConfigs ==
    {[AppConfig EXCEPT !.mode = m, !.region_large = l, !.region_small = r,
                       !.only_clipboard = o, !.save_dir = d] :
        m \in Modes, l \in Regions, r \in Regions, o \in BOOLEAN,
        d \in SaveDirs}

\* MainWindow.__init__: the configuration loaded, an empty cache
ShotInit ==
    /\ pc = "shot"
    /\ config \in ShotConfigs
    /\ frames = <<>>
    /\ first_shot_done = FALSE
    /\ event = "init"
    /\ stop_did = NothingDone
    /\ bs4_legacy = FALSE /\ result = <<>> /\ book = NoBook
    /\ AnchorIdle /\ ScanIdle /\ TocIdle /\ SplitIdle /\ HotkeyIdle

ShotUnchanged == UNCHANGED <<pc, epubVars, hotkeyVars>>

\* on_hotkey_start
OnHotkeyStart ==
    /\ pc = "shot"
    /\ frames' = clear_frames.frames
    /\ first_shot_done' = clear_frames.first_shot_done
    /\ event' = "start"
    /\ UNCHANGED <<config, stop_did>>
    /\ ShotUnchanged

\* on_hotkey_capture, config.mode == "with_header"
CaptureWithHeader ==
    /\ pc = "shot"
    /\ config.mode = "with_header"
    /\ Len(frames) < MaxFrames
    /\ \E screen_ok \in BOOLEAN :
          LET st == capture_with_header_mode(config, frames, first_shot_done,
                                             screen_ok)
          IN  /\ frames' = st.frames
              /\ first_shot_done' = st.first_shot_done
    /\ event' = "capture"
    /\ UNCHANGED <<config, stop_did>>
    /\ ShotUnchanged

\* on_hotkey_capture, any other mode
CaptureNormal ==
    /\ pc = "shot"
    /\ config.mode # "with_header"
    /\ Len(frames) < MaxFrames
    /\ \E screen_ok \in BOOLEAN :
          LET st == capture_normal_mode(config, frames, first_shot_done,
                                        screen_ok)
          IN  /\ frames' = st.frames
              /\ first_shot_done' = st.first_shot_done
    /\ event' = "capture"
    /\ UNCHANGED <<config, stop_did>>
    /\ ShotUnchanged

\* on_hotkey_stop
OnHotkeyStop ==
    /\ pc = "shot"
    /\ \E fail \in StopFailures :
          LET st == on_hotkey_stop(config, frames, first_shot_done, fail)
          IN  /\ frames' = st.frames
              /\ first_shot_done' = st.first_shot_done
              /\ stop_did' = st.did
    /\ event' = "stop"
    /\ UNCHANGED config
    /\ ShotUnchanged

\* on_mode_changed(checked): the with-header radio button toggled
OnModeChanged ==
    /\ pc = "shot"
    /\ \E checked \in BOOLEAN :
          /\ checked # (config.mode = "with_header")
          /\ config' = [config EXCEPT
                           !.mode = IF checked THEN "with_header" ELSE "normal"]
    /\ frames' = clear_frames.frames
    /\ first_shot_done' = clear_frames.first_shot_done
    /\ event' = "mode"
    /\ UNCHANGED stop_did
    /\ ShotUnchanged

\* on_selected(rect) of start_region_select(which)
OnSelected ==
    /\ pc = "shot"
    /\ \E which \in {"large", "small"}, rect \in SelectedRects :
          config' = IF rect[3] <= 0 \/ rect[4] <= 0
                    THEN config
                    ELSE IF which = "large"
                         THEN [config EXCEPT !.region_large = rect]
                         ELSE [config EXCEPT !.region_small = rect]
    /\ event' = "region"
    /\ UNCHANGED <<frames, first_shot_done, stop_did>>
    /\ ShotUnchanged

ShotNext ==
    \/ OnHotkeyStart \/ CaptureWithHeader \/ CaptureNormal \/ OnHotkeyStop
    \/ OnModeChanged \/ OnSelected

ShotSpec == ShotInit /\ [][ShotNext]_vars

----------------------------------------------------------------------------
(* Claims about the capture session (ShotSpec) *)

C16_StopAlwaysClears ==
    [][event' = "stop"
         => /\ frames' = <<>>
            /\ first_shot_done' = FALSE
            /\ frames = <<>>
                  => /\ stop_did' = NothingDone
                     /\ UNCHANGED <<config, frames, first_shot_done>>
            /\ stop_did'.save_attempted => ~config.only_clipboard
            /\ stop_did'.saved => stop_did'.save_attempted]_vars

\* a stop that copied the combined image and whose disk save then raised:
\* the cache is empty all the same
C16_Witness ==
    /\ event = "stop"
    /\ frames = <<>>
    /\ stop_did.copied /\ stop_did.save_attempted
    /\ ~stop_did.saved /\ ~stop_did.notified
    /\ config.save_dir # None

----------------------------------------------------------------------------
(* The screenshot tool's global hotkeys (src/ScreenShoter/main.py): the     *)
(* keyboard library's registry is a set of hooks, each with the handle     *)
(* add_hotkey returned for it and the hotkey string it was given.          *)

\* the hotkey strings keyboard.add_hotkey accepts; it raises on any other
KnownKeys == {F2, F3, F4, <<"F", "5">>, <<"f", "2">>}

\* whether keyboard.add_hotkey accepts the string
parses(key) == key \in KnownKeys

\* the handle add_hotkey returns: one that no hook of the registry has
new_handle(hs) ==
    Min({n \in 1..(Cardinality(hs) + 1) : \A r \in hs : r.handle # n})

\* keyboard.add_hotkey(key, callback) with a string it accepts
add_hotkey(hs, key) == hs \cup {[handle |-> new_handle(hs), hotkey |-> key]}

\* for h in handles: keyboard.remove_hotkey(h)
remove_hotkeys(hs, handles) ==
    {r \in hs : \A k \in 1..Len(handles) : r.handle # handles[k]}

\* add_hotkey for each string in turn, inside one try block: the calls
\* before the one that raises have taken effect
RECURSIVE add_hotkeys(_, _, _)
add_hotkeys(hs, keys, got) ==
    IF keys = <<>>
    THEN [hooks |-> hs, handles |-> got, raised |-> FALSE]
    ELSE IF ~parses(Head(keys))
         THEN [hooks |-> hs, handles |-> got, raised |-> TRUE]
         ELSE add_hotkeys(add_hotkey(hs, Head(keys)), Tail(keys),
                          Append(got, new_handle(hs)))

\* the three hotkeys of a configuration
hotkeys_of(cfg) == <<cfg.hotkey_start, cfg.hotkey_capture, cfg.hotkey_stop>>

\* register_hotkeys: drop the recorded hooks, add the three configured ones
\* and record them if no call raised
register_hotkeys(cfg, handles, hs) ==
    LET r == add_hotkeys(remove_hotkeys(hs, handles), hotkeys_of(cfg), <<>>)
    IN  [hooks |-> r.hooks,
         hotkey_handles |-> IF r.raised THEN <<>> ELSE r.handles]

\* validate_hotkeys with the three strings only tried, not compared
validate_hotkeys_no_duplicate_check(hs, keys) ==
    LET r == add_hotkeys(hs, keys, <<>>)
    IN  [valid |-> ~r.raised, hooks |-> remove_hotkeys(r.hooks, r.handles)]

\* validate_hotkeys: three different strings that the library accepts; the
\* trial hooks are removed again
validate_hotkeys(hs, keys) ==
    IF Cardinality({keys[1], keys[2], keys[3]}) < 3
    THEN [valid |-> FALSE, hooks |-> hs]
    ELSE LET r == add_hotkeys(hs, keys, <<>>)
         IN  [valid |-> ~r.raised,
              hooks |-> remove_hotkeys(r.hooks, r.handles)]

\* edit.text().strip() or default
text_or(t, default) == IF strip(t) = <<>> THEN default ELSE strip(t)

\* new_start, new_capture, new_stop of on_save_hotkeys_clicked
new_hotkeys(e) == <<text_or(e[1], F2), text_or(e[2], F3), text_or(e[3], F4)>>

\* a hotkey string the library rejects
Unknown == <<"?">>

\* hotkey triples the configuration file may hold
LoadedHotkeys ==
    {<<F2, F3, F4>>, <<F2, Unknown, F4>>, <<F2, F3, Unknown>>,
     <<Unknown, F3, F4>>, <<F2, F2, F4>>}

\* texts the user may type into a hotkey line edit
TypedTexts == {<<>>, <<" ", "F", "5">>, Unknown}

\* what keyboard.read_hotkey may deliver: "" when it raised
RecordedHotkeys == {<<>>, <<"f", "2">>}

\* MainWindow.__init__ up to init_ui: the configuration loaded and shown in
\* the line edits, nothing registered yet
HotkeyInit ==
    /\ pc = "constructed"
    /\ \E t \in LoadedHotkeys :
          /\ config = [AppConfig EXCEPT !.hotkey_start = t[1],
                                        !.hotkey_capture = t[2],
                                        !.hotkey_stop = t[3]]
          /\ edits = t
    /\ hotkey_dirty = FALSE
    /\ hotkey_handles = <<>>
    /\ hooks = {}
    /\ event = "init"
    /\ frames = <<>> /\ first_shot_done = FALSE /\ stop_did = NothingDone
    /\ bs4_legacy = FALSE /\ result = <<>> /\ book = NoBook
    /\ AnchorIdle /\ ScanIdle /\ TocIdle /\ SplitIdle

HotkeyUnchanged == UNCHANGED <<epubVars, frames, first_shot_done, stop_did>>

\* MainWindow.__init__: self.register_hotkeys()
Startup ==
    /\ pc = "constructed"
    /\ LET r == register_hotkeys(config, hotkey_handles, hooks)
       IN  /\ hooks' = r.hooks
           /\ hotkey_handles' = r.hotkey_handles
    /\ pc' = "running"
    /\ event' = "startup"
    /\ UNCHANGED <<config, edits, hotkey_dirty>>
    /\ HotkeyUnchanged

\* the user changes a line edit: textChanged calls mark_hotkey_dirty
TextEdited ==
    /\ pc = "running"
    /\ \E k \in 1..3, t \in TypedTexts :
          /\ t # edits[k]
          /\ edits' = [edits EXCEPT ![k] = t]
    /\ hotkey_dirty' = TRUE
    /\ event' = "edit"
    /\ UNCHANGED <<pc, config, hotkey_handles, hooks>>
    /\ HotkeyUnchanged

\* on_hotkey_captured(hotkey, target_edit): setText if a hotkey was read
OnHotkeyCaptured ==
    /\ pc = "running"
    /\ \E k \in 1..3, hotkey \in RecordedHotkeys :
          /\ edits' = IF hotkey # <<>> THEN [edits EXCEPT ![k] = hotkey]
                      ELSE edits
          /\ hotkey_dirty' = (hotkey_dirty \/ edits' # edits)
    /\ event' = "captured"
    /\ UNCHANGED <<pc, config, hotkey_handles, hooks>>
    /\ HotkeyUnchanged

\* the branch on_save_hotkeys_clicked takes
save_branch ==
    IF validate_hotkeys(hooks, new_hotkeys(edits)).valid THEN "adopt"
    ELSE IF validate_hotkeys(hooks, hotkeys_of(config)).valid THEN "restore"
    ELSE "reset"

\* on_save_hotkeys_clicked, the new triple valid: written to the
\* configuration with the save settings of the widgets, and registered
SaveAdopts ==
    /\ pc = "running"
    /\ save_branch = "adopt"
    /\ LET new == new_hotkeys(edits)
           v == validate_hotkeys(hooks, new)
       IN  /\ \E checked \in BOOLEAN, dir \in SaveDirs :
                 config' = [config EXCEPT !.hotkey_start = new[1],
                                          !.hotkey_capture = new[2],
                                          !.hotkey_stop = new[3],
                                          !.only_clipboard = checked,
                                          !.save_dir = dir]
           /\ LET r == register_hotkeys(config', hotkey_handles, v.hooks)
              IN  /\ hooks' = r.hooks
                  /\ hotkey_handles' = r.hotkey_handles
    /\ hotkey_dirty' = FALSE
    /\ event' = "save"
    /\ UNCHANGED <<pc, edits>>
    /\ HotkeyUnchanged

\* on_save_hotkeys_clicked, the new triple invalid and the old one valid:
\* the line edits go back to the old triple
SaveRestores ==
    /\ pc = "running"
    /\ save_branch = "restore"
    /\ edits' = hotkeys_of(config)
    /\ hooks' = validate_hotkeys(validate_hotkeys(hooks, new_hotkeys(edits)).hooks,
                                 hotkeys_of(config)).hooks
    /\ hotkey_dirty' = FALSE
    /\ event' = "save"
    /\ UNCHANGED <<pc, config, hotkey_handles>>
    /\ HotkeyUnchanged

\* on_save_hotkeys_clicked, both triples invalid: F2/F3/F4 written to the
\* configuration and the line edits, and registered
SaveResets ==
    /\ pc = "running"
    /\ save_branch = "reset"
    /\ config' = [config EXCEPT !.hotkey_start = F2, !.hotkey_capture = F3,
                                !.hotkey_stop = F4]
    /\ edits' = <<F2, F3, F4>>
    /\ LET v == validate_hotkeys(
                    validate_hotkeys(hooks, new_hotkeys(edits)).hooks,
                    hotkeys_of(config))
           r == register_hotkeys(config', hotkey_handles, v.hooks)
       IN  /\ hooks' = r.hooks
           /\ hotkey_handles' = r.hotkey_handles
    /\ hotkey_dirty' = FALSE
    /\ event' = "save"
    /\ UNCHANGED pc
    /\ HotkeyUnchanged

\* closeEvent: the recorded hooks removed, the list cleared
CloseEvent ==
    /\ pc = "running"
    /\ hooks' = remove_hotkeys(hooks, hotkey_handles)
    /\ hotkey_handles' = <<>>
    /\ pc' = "closed"
    /\ event' = "close"
    /\ UNCHANGED <<config, edits, hotkey_dirty>>
    /\ HotkeyUnchanged

HotkeyNext ==
    \/ Startup \/ TextEdited \/ OnHotkeyCaptured
    \/ SaveAdopts \/ SaveRestores \/ SaveResets \/ CloseEvent

HotkeySpec == HotkeyInit /\ [][HotkeyNext]_vars

----------------------------------------------------------------------------
(* Claims about the global hotkeys (HotkeySpec) *)

\* three pairwise different strings, each one the library accepts
ValidTriple(t) ==
    /\ t[1] # t[2] /\ t[1] # t[3] /\ t[2] # t[3]
    /\ \A k \in 1..3 : parses(t[k])

C18_EveryHookRecorded ==
    /\ \A r \in hooks : \E k \in 1..Len(hotkey_handles) : hotkey_handles[k] = r.handle
    /\ pc = "closed" => hooks = {}

====
